---- MODULE Spec2Model ----
(***************************************************************************)
(* Model of the chat_anon_frontend client: the session protocol            *)
(* (hooks/useWebSocket.ts), the shared store (stores/chatStore.ts), the    *)
(* playback scheduler (hooks/useAudioPlayer.ts) and the capture pipeline   *)
(* (hooks/useAudioRecorder.ts).                                            *)
(*                                                                         *)
(* The browser is the environment: WebSocket objects with their ready      *)
(* state and events, window timers, the AudioContext clock, the            *)
(* microphone.  Every handler of the source is one action; the program is  *)
(* single threaded, so a handler runs to completion.                       *)
(***************************************************************************)
EXTENDS Integers, Sequences, FiniteSets, TLC

\* ------------------------------------------------------------------ bounds
MaxSockets == 3        \* WebSocket objects created in one run
MaxMessages == 3       \* length of the message log
MaxChunks == 2         \* audio chunks decoded and scheduled in one run
MaxTime == 2           \* last instant of the output clock
MaxStreams == 2        \* microphone streams the browser hands out in one run
MaxPending == 2        \* startRecording calls waiting for getUserMedia at a time
MaxBlocks == 2         \* audio blocks the processors deliver in one run

\* --------------------------------------------------------------- constants
NULL == 0              \* null reference / cleared timer handle
Sockets == 1..MaxSockets
ReadyStates == {"NONE", "CONNECTING", "OPEN", "CLOSING", "CLOSED"}
Tokens == {"", "tok"}
Texts == {"a", "b"}
Stages == {"idle", "asr", "llm", "tts", "playing"}
FullVolume == 2        \* the loudness 1.0, in model units
Volumes == 0..FullVolume
Durations == {1, 2}    \* chunk lengths, in clock ticks

Streams == 1..MaxStreams
NoTurn == [base |-> 0, responses |-> <<>>, ended |-> "none"]
NoNode == [start |-> 0, dur |-> 0, at |-> 0, first |-> TRUE]

\* resampleAudio not called yet
NoResample == [step |-> "none", n |-> 0, from |-> 0, to |-> 0, out |-> <<>>]

\* no sample converted yet
NoCodec == [step |-> "none", sample |-> 0, pcm |-> 0, decoded |-> 0]

Max(a, b) == IF a >= b THEN a ELSE b
Min(a, b) == IF a <= b THEN a ELSE b

VARIABLES
  \* chatStore (zustand) --------------------------------------------------
  connectionStatus,    \* 'disconnected' | 'connecting' | 'connected' | 'error'
  errorMessage,        \* "null" or the text shown to the user
  apiToken,
  ws,                  \* the shared WebSocket handle: NULL or a socket
  messages,            \* the message log: seq of [role, content, isPartial]
  partialTranscription,
  pipelineStage,
  isThinking,
  isPlaying,
  volumeLevel,
  volumeLevelRef,      \* the loudness cell read by the lip sync every frame
  \* browser: WebSocket objects -------------------------------------------
  readyState,          \* readyState of every socket object ("NONE": not created)
  opened,              \* sockets whose open event has fired
  failing,             \* socket whose error event was just dispatched; its
                       \* close event is dispatched next, in the same task
  \* useWebSocket refs and the window timers behind them ------------------
  pingIntervalRef,     \* NULL or the handle of the interval it refers to
  intervals,           \* live setInterval timers, named by the socket whose onopen made them
  reconnectTimeoutRef, \* NULL or the handle of the timeout it refers to
  reconnectTimers,     \* pending setTimeout timers, named by the socket whose onclose made them
  \* useAudioPlayer refs ---------------------------------------------------
  audioContextRef,     \* "null" | "running" | "closed" (analyserRef lives with it)
  isPlayingRef,
  lastScheduledEndTimeRef,
  streamEndedRef,
  playbackCheckIntervalRef, \* TRUE while it holds the handle of the live poll interval
  animationFrameRef,   \* TRUE while it holds a frame handle
  scheduledSourcesRef, \* the source nodes it lists (their ids)
  playerMounted,       \* the component using the hook is mounted
  \* browser: audio --------------------------------------------------------
  currentTime,         \* AudioContext.currentTime of the player's context
  nodes,               \* the AudioBufferSourceNodes started and not yet ended:
                       \*   records [id, start, dur, stopped]
  nodeCount,           \* source nodes created so far
  lastNode,            \* the node started last: [start, dur, at, first]; at = the
                       \*   clock when start() was called, first = it was the first
                       \*   one after a reset of the scheduling baseline
  framePending,        \* a requestAnimationFrame callback is pending
  pollTimers,          \* number of live setInterval(checkPlaybackEnded) timers
  baselineReset,       \* lastScheduledEndTimeRef was reset and no chunk scheduled since
  \* chatStore, recording ---------------------------------------------------
  isRecording,
  \* useAudioRecorder state and refs ----------------------------------------
  onChunk,             \* the hook was given an onChunk option
  permissionDenied,
  streamRef,           \* NULL or a microphone stream
  recAudioContextRef,  \* the recorder's audioContextRef: NULL or a capture graph
  sourceRef,           \* NULL or the graph whose source node it holds
  processorRef,        \* NULL or the graph whose processor node it holds
  chunksRef,           \* seq of frames: the Int16Array blocks kept for the merge
  accumulatedSamplesRef, \* seq of frames: the Float32Array blocks since the last flush
  isRecordingRef,
  chunkIntervalRef,    \* NULL or the handle of a flush interval
  \* browser: capture ------------------------------------------------------
  pendingStarts,       \* startRecording calls suspended at await getUserMedia
  micStreams,          \* stream |-> "none" | "live" | "stopped"
  released,            \* stream |-> how many times its tracks were stopped
  graphs,              \* capture graph (context, source, processor) |->
                       \*   "none" | "open" | "closed"; graph g is built on stream g
  wired,               \* graphs whose processor is still connected
  flushTimers,         \* live flush intervals, named by the stream they started with
  voiceMode,           \* store: "idle" | "push-to-talk" | "voice_call"
  isPressedRef,        \* VoiceControls: the push-to-talk button is held down
  deviceRate,          \* NULL, or the sampleRate the browser gives a capture context
  frameCount,          \* audio blocks the processors have delivered so far
  startedAt,           \* frameCount when the last startRecording completed
  fed,                 \* the lengths of the blocks delivered since then, in order
  emitted,             \* the chunks handed to onChunk so far, each a seq of samples
  returned,            \* the samples of the last stopRecording result
  overlapped,          \* some recorder call was made while a startRecording call
                       \*   was still waiting for getUserMedia
  \* observation -----------------------------------------------------------
  sent,                \* frames transmitted in the last step: seq of <<kind, socket>>
  userDisconnected,    \* TRUE from a disconnect() until the next connect() call
  turn,                \* the current turn as the server delivered it:
                       \*   [base, responses, ended], base = length of the log when
                       \*   the turn began, responses = the contents of its response
                       \*   frames in order, ended = "none" before the first
                       \*   thinking frame, then "no" | "once" | "again": the
                       \*   turn_end frames since the last thinking frame
  resampling,          \* the last call of resampleAudio: [step, n, from, to, out],
                       \*   out the pair of source indices of each output sample
  codec,               \* the sample last put through the PCM conversions:
                       \*   [step, sample, pcm, decoded], sample and decoded in
                       \*   units of 1/Unit, pcm the 16-bit integer
  ignored              \* what became of the last frame delivered: "none" when a
                       \*   case handled it, "unknown" when no case matched its
                       \*   kind, "unparsable" when JSON.parse threw

connVars == <<connectionStatus, errorMessage, apiToken, ws, readyState, opened,
              failing, pingIntervalRef, intervals, reconnectTimeoutRef,
              reconnectTimers, userDisconnected>>
logVars == <<messages, partialTranscription, isThinking>>
stageVars == <<pipelineStage, isPlaying>>
volVars == <<volumeLevel, volumeLevelRef>>
playerVars == <<audioContextRef, isPlayingRef, lastScheduledEndTimeRef,
                streamEndedRef, playbackCheckIntervalRef, animationFrameRef,
                scheduledSourcesRef, playerMounted, currentTime, nodes,
                nodeCount, lastNode, framePending, pollTimers, baselineReset>>
recVars == <<isRecording, onChunk, permissionDenied, streamRef,
             recAudioContextRef, sourceRef, processorRef, chunksRef,
             accumulatedSamplesRef, isRecordingRef, chunkIntervalRef,
             pendingStarts, micStreams, released, graphs, wired, flushTimers,
             voiceMode, isPressedRef, deviceRate, frameCount, startedAt, fed,
             emitted, returned, overlapped>>
obsVars == <<sent, turn, ignored, codec, resampling>>
vars == <<connVars, logVars, stageVars, volVars, playerVars, recVars, obsVars>>
\* what the session's own handlers (connect, disconnect, transport events) leave alone
restVars == <<logVars, stageVars, volVars, playerVars>>

\* ------------------------------------------------------------ environment
Live(s) == readyState[s] \in {"CONNECTING", "OPEN"}
LiveSockets == {s \in Sockets : Live(s)}
IsOpen(h) == h # NULL /\ readyState[h] = "OPEN"
FreeSockets == {s \in Sockets : readyState[s] = "NONE"}
NewSocket == CHOOSE s \in FreeSockets : \A t \in FreeSockets : s <= t

\* WebSocket.close(): CONNECTING/OPEN -> CLOSING, otherwise nothing
CloseCall(rs, h) ==
  IF rs[h] \in {"CONNECTING", "OPEN"} THEN [rs EXCEPT ![h] = "CLOSING"] ELSE rs

\* ---------------------------------------------------------------- session
Init ==
  /\ connectionStatus = "disconnected"
  /\ errorMessage = "null"
  /\ apiToken \in Tokens
  /\ ws = NULL
  /\ readyState = [s \in Sockets |-> "NONE"]
  /\ opened = {}
  /\ failing = NULL
  /\ pingIntervalRef = NULL
  /\ intervals = {}
  /\ reconnectTimeoutRef = NULL
  /\ reconnectTimers = {}
  /\ sent = <<>>
  /\ userDisconnected = FALSE
  /\ messages = <<>>
  /\ partialTranscription = ""
  /\ pipelineStage = "idle"
  /\ isThinking = FALSE
  /\ isPlaying = FALSE
  /\ volumeLevel = 0
  /\ volumeLevelRef = 0
  /\ audioContextRef = "null"
  /\ isPlayingRef = FALSE
  /\ lastScheduledEndTimeRef = 0
  /\ streamEndedRef = FALSE
  /\ playbackCheckIntervalRef = FALSE
  /\ animationFrameRef = FALSE
  /\ scheduledSourcesRef = {}
  /\ playerMounted = TRUE
  /\ currentTime = 0
  /\ nodes = {}
  /\ nodeCount = 0
  /\ lastNode = NoNode
  /\ framePending = FALSE
  /\ pollTimers = 0
  /\ baselineReset = TRUE
  /\ isRecording = FALSE
  /\ onChunk = FALSE
  /\ permissionDenied = FALSE
  /\ streamRef = NULL
  /\ recAudioContextRef = NULL
  /\ sourceRef = NULL
  /\ processorRef = NULL
  /\ chunksRef = <<>>
  /\ accumulatedSamplesRef = <<>>
  /\ isRecordingRef = FALSE
  /\ chunkIntervalRef = NULL
  /\ pendingStarts = 0
  /\ micStreams = [s \in Streams |-> "none"]
  /\ released = [s \in Streams |-> 0]
  /\ graphs = [s \in Streams |-> "none"]
  /\ wired = {}
  /\ flushTimers = {}
  /\ voiceMode = "idle"
  /\ isPressedRef = FALSE
  /\ deviceRate = NULL
  /\ frameCount = 0
  /\ startedAt = 0
  /\ fed = <<>>
  /\ emitted = <<>>
  /\ returned = <<>>
  /\ overlapped = FALSE
  /\ turn = NoTurn
  /\ ignored = "none"
  /\ codec = NoCodec
  /\ resampling = NoResample

\* Header.handleSaveToken -> chatStore.setApiToken
setApiToken(t) ==
  /\ failing = NULL
  /\ apiToken' = t
  /\ sent' = <<>>
  /\ UNCHANGED <<turn, ignored, codec, resampling, recVars>>
  /\ UNCHANGED <<connectionStatus, errorMessage, ws, readyState, opened, failing,
                 pingIntervalRef, intervals, reconnectTimeoutRef, reconnectTimers,
                 userDisconnected>>
  /\ UNCHANGED restVars

\* a connect() without the test of the stored handle
connectNeverReturnsEarly(h) == FALSE

\* The ready state connect() tests before it creates a transport: it returns
\* early only when the stored handle is OPEN.
connectReturnsEarly(h) == IsOpen(h)

\* a connect() that opens the transport without looking at the token
connectBodyWithoutTokenTest ==
  IF connectReturnsEarly(ws)
  THEN UNCHANGED <<connectionStatus, errorMessage, ws, readyState>>
  ELSE /\ FreeSockets # {}
       /\ connectionStatus' = "connecting"
       /\ errorMessage' = "null"
       /\ readyState' = [readyState EXCEPT ![NewSocket] = "CONNECTING"]
       /\ ws' = NewSocket

\* useWebSocket.connect: the body shared by the user's call and the
\* reconnect timer's callback.  Leaves reconnectTimers and
\* userDisconnected to the caller.
connectBody ==
  IF connectReturnsEarly(ws)
  THEN UNCHANGED <<connectionStatus, errorMessage, ws, readyState>>
  ELSE IF apiToken = ""
  THEN /\ errorMessage' = "missing token"
       /\ UNCHANGED <<connectionStatus, ws, readyState>>
  ELSE /\ FreeSockets # {}
       /\ connectionStatus' = "connecting"
       /\ errorMessage' = "null"
       /\ readyState' = [readyState EXCEPT ![NewSocket] = "CONNECTING"]
       /\ ws' = NewSocket

connect ==
  /\ failing = NULL
  /\ connectBody
  /\ sent' = <<>>
  /\ UNCHANGED <<turn, ignored, codec, resampling, recVars>>
  /\ userDisconnected' = FALSE
  /\ UNCHANGED <<apiToken, opened, failing, pingIntervalRef, intervals,
                 reconnectTimeoutRef, reconnectTimers>>
  /\ UNCHANGED restVars

\* the callback of the timeout armed in onclose
reconnectTimerFires(t) ==
  /\ failing = NULL
  /\ t \in reconnectTimers
  /\ reconnectTimers' = reconnectTimers \ {t}
  /\ connectBody
  /\ sent' = <<>>
  /\ UNCHANGED <<turn, ignored, codec, resampling, recVars>>
  /\ UNCHANGED <<apiToken, opened, failing, pingIntervalRef, intervals,
                 reconnectTimeoutRef, userDisconnected>>
  /\ UNCHANGED restVars

\* newWs.onopen
onopen(s) ==
  /\ failing = NULL
  /\ readyState[s] = "CONNECTING"
  /\ readyState' = [readyState EXCEPT ![s] = "OPEN"]
  /\ opened' = opened \cup {s}
  /\ sent' = <<<<"connect", s>>>>
  /\ UNCHANGED <<turn, ignored, codec, resampling, recVars>>
  /\ pingIntervalRef' = s
  /\ intervals' = intervals \cup {s}
  /\ UNCHANGED <<connectionStatus, errorMessage, apiToken, ws, failing,
                 reconnectTimeoutRef, reconnectTimers, userDisconnected>>
  /\ UNCHANGED restVars

\* the callback of the interval started in onopen
pingTick(i) ==
  /\ failing = NULL
  /\ i \in intervals
  /\ sent' = IF IsOpen(ws) THEN <<<<"ping", ws>>>> ELSE <<>>
  /\ UNCHANGED <<turn, ignored, codec, resampling, recVars>>
  /\ UNCHANGED <<connVars, restVars>>

\* newWs.onerror.  The browser sets the ready state to CLOSED before it
\* dispatches error, and dispatches close right after it.
onerror(s) ==
  /\ failing = NULL
  /\ \/ readyState[s] \in {"CONNECTING", "OPEN"}
     \/ readyState[s] = "CLOSING"
  /\ readyState' = [readyState EXCEPT ![s] = "CLOSED"]
  /\ failing' = s
  /\ connectionStatus' = "error"
  /\ errorMessage' = "connection error"
  /\ sent' = <<>>
  /\ UNCHANGED <<turn, ignored, codec, resampling, recVars>>
  /\ UNCHANGED <<apiToken, ws, opened, pingIntervalRef, intervals,
                 reconnectTimeoutRef, reconnectTimers, userDisconnected>>
  /\ UNCHANGED restVars

\* What useChatStore.getState().connectionStatus returns in onclose: the
\* store was set to 'disconnected' two statements earlier.
statusReadInOnclose(before) == "disconnected"

\* newWs.onclose.  A clean close needs an established connection (a socket
\* closed while CONNECTING fails, so its close follows its error event).
onclose(s) ==
  /\ \/ failing = s
     \/ failing = NULL /\ s \in opened /\ readyState[s] \in {"OPEN", "CLOSING"}
  /\ failing' = NULL
  /\ readyState' = [readyState EXCEPT ![s] = "CLOSED"]
  /\ connectionStatus' = "disconnected"
  /\ ws' = NULL
  /\ pingIntervalRef' = NULL
  /\ intervals' = intervals \ {pingIntervalRef}
  /\ IF statusReadInOnclose(connectionStatus) = "connected"
     THEN /\ reconnectTimeoutRef' = s
          /\ reconnectTimers' = reconnectTimers \cup {s}
     ELSE UNCHANGED <<reconnectTimeoutRef, reconnectTimers>>
  /\ sent' = <<>>
  /\ UNCHANGED <<turn, ignored, codec, resampling, recVars>>
  /\ UNCHANGED <<errorMessage, apiToken, opened, userDisconnected>>
  /\ UNCHANGED restVars

\* useWebSocket.disconnect
disconnect ==
  /\ failing = NULL
  /\ reconnectTimers' = reconnectTimers \ {reconnectTimeoutRef}
  /\ reconnectTimeoutRef' = NULL
  /\ intervals' = intervals \ {pingIntervalRef}
  /\ pingIntervalRef' = NULL
  /\ IF ws # NULL
     THEN /\ readyState' = CloseCall(readyState, ws)
          /\ ws' = NULL
     ELSE UNCHANGED <<readyState, ws>>
  /\ connectionStatus' = "disconnected"
  /\ sent' = <<>>
  /\ UNCHANGED <<turn, ignored, codec, resampling, recVars>>
  /\ userDisconnected' = TRUE
  /\ UNCHANGED <<errorMessage, apiToken, opened, failing>>
  /\ UNCHANGED restVars

\* ------------------------------------------------- store and dispatch
\* The fields the message handlers and the playback scheduler read and write,
\* as one record, so that the functions of the source compose as they do there.
World ==
  [connectionStatus |-> connectionStatus, errorMessage |-> errorMessage,
   messages |-> messages, partialTranscription |-> partialTranscription,
   pipelineStage |-> pipelineStage, isThinking |-> isThinking,
   isPlaying |-> isPlaying, volumeLevel |-> volumeLevel,
   volumeLevelRef |-> volumeLevelRef,
   audioContextRef |-> audioContextRef, isPlayingRef |-> isPlayingRef,
   lastScheduledEndTimeRef |-> lastScheduledEndTimeRef,
   streamEndedRef |-> streamEndedRef,
   playbackCheckIntervalRef |-> playbackCheckIntervalRef,
   animationFrameRef |-> animationFrameRef,
   scheduledSourcesRef |-> scheduledSourcesRef,
   playerMounted |-> playerMounted, currentTime |-> currentTime,
   nodes |-> nodes, nodeCount |-> nodeCount, lastNode |-> lastNode,
   framePending |-> framePending, pollTimers |-> pollTimers,
   baselineReset |-> baselineReset]

Commit(w) ==
  /\ connectionStatus' = w.connectionStatus
  /\ errorMessage' = w.errorMessage
  /\ messages' = w.messages
  /\ partialTranscription' = w.partialTranscription
  /\ pipelineStage' = w.pipelineStage
  /\ isThinking' = w.isThinking
  /\ isPlaying' = w.isPlaying
  /\ volumeLevel' = w.volumeLevel
  /\ volumeLevelRef' = w.volumeLevelRef
  /\ audioContextRef' = w.audioContextRef
  /\ isPlayingRef' = w.isPlayingRef
  /\ lastScheduledEndTimeRef' = w.lastScheduledEndTimeRef
  /\ streamEndedRef' = w.streamEndedRef
  /\ playbackCheckIntervalRef' = w.playbackCheckIntervalRef
  /\ animationFrameRef' = w.animationFrameRef
  /\ scheduledSourcesRef' = w.scheduledSourcesRef
  /\ playerMounted' = w.playerMounted
  /\ currentTime' = w.currentTime
  /\ nodes' = w.nodes
  /\ nodeCount' = w.nodeCount
  /\ lastNode' = w.lastNode
  /\ framePending' = w.framePending
  /\ pollTimers' = w.pollTimers
  /\ baselineReset' = w.baselineReset

\* a server frame: its kind and the payload fields the handlers read
Msg(ty) == [type |-> ty, text |-> "", ok |-> TRUE, dur |-> 0]
TextMsg(ty, c) == [type |-> ty, text |-> c, ok |-> TRUE, dur |-> 0]
ChunkMsg(ok, d) == [type |-> "audio_chunk", text |-> "", ok |-> ok, dur |-> d]

\* chatStore.addMessage
addMessage(log, msg) == Append(log, msg)
\* chatStore.clearMessages
clearMessages(w) == [w EXCEPT !.messages = <<>>, !.partialTranscription = ""]

UserMessage(c) == [role |-> "user", content |-> c, isPartial |-> FALSE]
AssistantMessage(c) == [role |-> "assistant", content |-> c, isPartial |-> FALSE]

\* a response that also idles the pipeline, as the earlier handler did
handleResponseIdles(w, m) ==
  [w EXCEPT !.isThinking = FALSE, !.pipelineStage = "idle",
            !.messages = addMessage(@, AssistantMessage(m.text))]

\* useWebSocket.handleMessage, case 'response'
handleResponse(w, m) ==
  [w EXCEPT !.isThinking = FALSE,
            !.messages = addMessage(@, AssistantMessage(m.text))]

\* a turn_end that also clears the playing flag, as the earlier audio_end did
handleTurnEndClearsPlaying(w) ==
  [w EXCEPT !.isThinking = FALSE, !.pipelineStage = "idle", !.isPlaying = FALSE]

\* useWebSocket.handleMessage, case 'turn_end'
handleTurnEnd(w) == [w EXCEPT !.isThinking = FALSE, !.pipelineStage = "idle"]

\* an audio_end that idles the session, as the earlier handler did
handleAudioEndIdles(w) == [w EXCEPT !.isPlaying = FALSE, !.pipelineStage = "idle"]

\* useWebSocket.handleMessage, case 'audio_end': nothing is written
handleAudioEnd(w) == w

\* StatusIndicator: the stage it shows
effectiveStage == IF isPlaying THEN "playing" ELSE pipelineStage

\* the kinds handleMessage has a case for
DispatchedKinds ==
  {"connected", "disconnected", "thinking", "asr_start", "asr_end",
   "llm_start", "llm_end", "tts_start", "transcription", "audio_chunk",
   "audio_end", "response", "turn_end", "audio_stream_started",
   "agent_listening", "character_switched", "history_cleared", "pong", "error"}

\* a dispatcher that reports a frame of a kind it has no case for
unknownKindFails(w, m) ==
  [w EXCEPT !.errorMessage = "server", !.isThinking = FALSE,
            !.pipelineStage = "idle"]

\* handleMessage: the switch when no case matches the kind of the frame
unknownKind(w, m) == w

\* handleMessage and the player's listener: the catch around JSON.parse
parseFailed(w) == w

\* useWebSocket.handleMessage
handleMessage(w, m) ==
  CASE m.type = "connected" ->
         [w EXCEPT !.connectionStatus = "connected", !.errorMessage = "null"]
    [] m.type = "disconnected" ->
         [w EXCEPT !.connectionStatus = "disconnected", !.errorMessage = "server"]
    [] m.type = "thinking" ->
         [w EXCEPT !.isThinking = TRUE, !.pipelineStage = "idle"]
    [] m.type = "asr_start" -> [w EXCEPT !.pipelineStage = "asr"]
    [] m.type = "asr_end" ->
         [w EXCEPT !.partialTranscription = "",
                   !.messages = addMessage(@, UserMessage(m.text))]
    [] m.type = "llm_start" -> [w EXCEPT !.pipelineStage = "llm"]
    [] m.type = "llm_end" -> w
    [] m.type = "tts_start" ->
         [w EXCEPT !.pipelineStage = "tts", !.isThinking = FALSE]
    [] m.type = "transcription" ->
         [w EXCEPT !.partialTranscription = IF m.ok THEN m.text ELSE ""]
    [] m.type = "audio_chunk" ->
         [w EXCEPT !.pipelineStage = "playing", !.isPlaying = TRUE]
    [] m.type = "audio_end" -> handleAudioEnd(w)
    [] m.type = "response" -> handleResponse(w, m)
    [] m.type = "turn_end" -> handleTurnEnd(w)
    [] m.type = "audio_stream_started" -> w
    [] m.type = "agent_listening" ->
         [w EXCEPT !.pipelineStage = "idle", !.isThinking = FALSE]
    [] m.type = "character_switched" -> clearMessages(w)
    [] m.type = "history_cleared" -> clearMessages(w)
    [] m.type = "pong" -> w
    [] m.type = "error" ->
         [w EXCEPT !.errorMessage = "server", !.isThinking = FALSE,
                   !.pipelineStage = "idle"]
    [] OTHER -> unknownKind(w, m)

\* ------------------------------------------------------ playback scheduler
\* useAudioPlayer.getAudioContext: a new context starts its clock at 0
getAudioContext(w) ==
  IF w.audioContextRef \in {"null", "closed"}
  THEN [w EXCEPT !.audioContextRef = "running", !.currentTime = 0,
                 !.lastScheduledEndTimeRef = 0, !.scheduledSourcesRef = {},
                 !.baselineReset = TRUE]
  ELSE w

\* the loudness written for a sampled RMS: Math.min(1, rms * 2)
volumeOf(rms) == Min(FullVolume, rms * 2)

\* useAudioPlayer.startVolumeMonitoring/updateVolume: one animation frame
updateVolume(w, rms) ==
  IF ~w.isPlayingRef
  THEN [w EXCEPT !.volumeLevel = 0, !.framePending = FALSE]
  ELSE [w EXCEPT !.volumeLevelRef = volumeOf(rms), !.volumeLevel = volumeOf(rms),
                 !.animationFrameRef = TRUE, !.framePending = TRUE]

\* useAudioPlayer.startVolumeMonitoring (the analyser exists once a context does)
startVolumeMonitoring(w, rms) ==
  IF w.audioContextRef = "null" THEN w ELSE updateVolume(w, rms)

\* a stopVolumeMonitoring that cancels the frame and leaves the level
stopVolumeMonitoringKeepsLevel(w) ==
  [w EXCEPT !.framePending = IF w.animationFrameRef THEN FALSE ELSE @,
            !.animationFrameRef = FALSE]

\* useAudioPlayer.stopVolumeMonitoring
stopVolumeMonitoring(w) ==
  [w EXCEPT !.framePending = IF w.animationFrameRef THEN FALSE ELSE @,
            !.animationFrameRef = FALSE,
            !.volumeLevelRef = 0, !.volumeLevel = 0]

\* the drain condition without the stream-ended flag, as in the earlier
\* checkPlaybackEnded
drainedIgnoringStreamEnd(streamEnded, playing, now, lastEnd) ==
  playing /\ now >= lastEnd

\* the drain condition of checkPlaybackEnded
drained(streamEnded, playing, now, lastEnd) ==
  streamEnded /\ playing /\ now >= lastEnd

\* a drain check that leaves its interval running
checkPlaybackEndedKeepsPoll(w) ==
  IF w.audioContextRef = "null" THEN w
  ELSE IF drained(w.streamEndedRef, w.isPlayingRef, w.currentTime,
                  w.lastScheduledEndTimeRef)
  THEN stopVolumeMonitoring(
         [w EXCEPT !.scheduledSourcesRef = {}, !.isPlayingRef = FALSE,
                   !.isPlaying = FALSE, !.pipelineStage = "idle"])
  ELSE w

\* useAudioPlayer.checkPlaybackEnded
checkPlaybackEnded(w) ==
  IF w.audioContextRef = "null" THEN w
  ELSE IF drained(w.streamEndedRef, w.isPlayingRef, w.currentTime,
                  w.lastScheduledEndTimeRef)
  THEN LET w1 == stopVolumeMonitoring(
                   [w EXCEPT !.scheduledSourcesRef = {}, !.isPlayingRef = FALSE,
                             !.isPlaying = FALSE, !.pipelineStage = "idle"])
       IN [w1 EXCEPT !.pollTimers = IF w.playbackCheckIntervalRef THEN @ - 1 ELSE @,
                     !.playbackCheckIntervalRef = FALSE]
  ELSE w

\* a start time that ignores what is already scheduled
startTimeNow(lastEnd, now) == now

\* the start time scheduleBuffer computes
startTimeOf(lastEnd, now) == Max(lastEnd, now)

\* useAudioPlayer.scheduleBuffer
scheduleBuffer(w, dur) ==
  LET now == w.currentTime
      startTime == startTimeOf(w.lastScheduledEndTimeRef, now)
      id == w.nodeCount + 1
      node == [id |-> id, start |-> startTime, dur |-> dur, stopped |-> FALSE]
  IN [w EXCEPT !.lastScheduledEndTimeRef = startTime + dur,
               !.nodes = @ \cup {node},
               !.nodeCount = id,
               !.lastNode = [start |-> startTime, dur |-> dur, at |-> now,
                             first |-> w.baselineReset],
               !.scheduledSourcesRef = @ \cup {id},
               !.baselineReset = FALSE]

\* an addAudioChunk whose catch block resets the scheduling state
addAudioChunkResetsOnError(w, ok, dur, rms) ==
  LET w1 == getAudioContext(w) IN
  IF ~ok THEN [w1 EXCEPT !.lastScheduledEndTimeRef = 0, !.baselineReset = TRUE]
  ELSE LET w2 == scheduleBuffer(w1, dur) IN
       IF w2.isPlayingRef THEN w2
       ELSE LET w3 == startVolumeMonitoring(
                        [w2 EXCEPT !.isPlayingRef = TRUE, !.isPlaying = TRUE], rms)
            IN IF w3.playbackCheckIntervalRef THEN w3
               ELSE [w3 EXCEPT !.playbackCheckIntervalRef = TRUE,
                               !.pollTimers = @ + 1]

\* useAudioPlayer.addAudioChunk; ok = the payload decodes
addAudioChunk(w, ok, dur, rms) ==
  LET w1 == getAudioContext(w) IN
  IF ~ok THEN w1
  ELSE LET w2 == scheduleBuffer(w1, dur) IN
       IF w2.isPlayingRef THEN w2
       ELSE LET w3 == startVolumeMonitoring(
                        [w2 EXCEPT !.isPlayingRef = TRUE, !.isPlaying = TRUE], rms)
            IN IF w3.playbackCheckIntervalRef THEN w3
               ELSE [w3 EXCEPT !.playbackCheckIntervalRef = TRUE,
                               !.pollTimers = @ + 1]

\* source.stop() on every node of a list
StopAll(ns, list) ==
  {IF n.id \in list THEN [n EXCEPT !.stopped = TRUE] ELSE n : n \in ns}

\* useAudioPlayer.stopPlayback
stopPlayback(w) ==
  stopVolumeMonitoring(
    [w EXCEPT !.nodes = StopAll(@, w.scheduledSourcesRef),
              !.scheduledSourcesRef = {},
              !.pollTimers = IF w.playbackCheckIntervalRef THEN @ - 1 ELSE @,
              !.playbackCheckIntervalRef = FALSE,
              !.lastScheduledEndTimeRef = 0,
              !.streamEndedRef = FALSE,
              !.baselineReset = TRUE,
              !.isPlayingRef = FALSE,
              !.isPlaying = FALSE])

\* the listener with the earlier tts_start case, which reset the baseline
playerHandleMessageResetsOnTtsStart(w, m, rms) ==
  CASE m.type = "llm_start" ->
         [w EXCEPT !.lastScheduledEndTimeRef = 0, !.streamEndedRef = FALSE,
                   !.baselineReset = TRUE]
    [] m.type = "tts_start" ->
         [getAudioContext(w) EXCEPT !.lastScheduledEndTimeRef = 0,
                                    !.baselineReset = TRUE]
    [] m.type = "audio_chunk" -> addAudioChunk(w, m.ok, m.dur, rms)
    [] m.type = "audio_end" -> [w EXCEPT !.streamEndedRef = TRUE]
    [] OTHER -> w

\* useAudioPlayer: the 'message' listener the hook adds to the stored socket
playerHandleMessage(w, m, rms) ==
  CASE m.type = "llm_start" ->
         [w EXCEPT !.lastScheduledEndTimeRef = 0, !.streamEndedRef = FALSE,
                   !.baselineReset = TRUE]
    [] m.type = "tts_start" -> getAudioContext(w)
    [] m.type = "audio_chunk" -> addAudioChunk(w, m.ok, m.dur, rms)
    [] m.type = "audio_end" -> [w EXCEPT !.streamEndedRef = TRUE]
    [] OTHER -> w

\* what the frame m adds to the record of the turn delivered so far
TurnAfter(t, m, logLen) ==
  CASE m.type = "thinking" -> [base |-> logLen, responses |-> <<>>, ended |-> "no"]
    [] m.type = "response" -> [t EXCEPT !.responses = Append(@, m.text)]
    [] m.type = "turn_end" ->
         [t EXCEPT !.ended = CASE @ = "none" -> "none"
                                  [] @ = "no" -> "once"
                                  [] OTHER -> "again"]
    [] m.type \in {"character_switched", "history_cleared"} ->
         [t EXCEPT !.base = 0, !.responses = <<>>]
    [] OTHER -> t

sessionRefs == <<apiToken, ws, readyState, opened, failing, pingIntervalRef,
                 intervals, reconnectTimeoutRef, reconnectTimers, userDisconnected>>

\* a 'message' event of socket s: newWs.onmessage, then the player's listener
\* when s is the stored socket
onmessage(s, m, rms) ==
  /\ failing = NULL
  /\ readyState[s] = "OPEN"
  /\ LET w1 == handleMessage(World, m)
         w2 == IF s = ws /\ playerMounted THEN playerHandleMessage(w1, m, rms) ELSE w1
     IN /\ Len(w2.messages) <= MaxMessages
        /\ w2.nodeCount <= MaxChunks
        /\ Commit(w2)
  /\ sent' = <<>>
  /\ turn' = TurnAfter(turn, m, Len(messages))
  /\ ignored' = IF m.type \in DispatchedKinds THEN "none" ELSE "unknown"
  /\ UNCHANGED <<codec, resampling, recVars>>
  /\ UNCHANGED sessionRefs

\* a 'message' event of socket s whose data is not JSON: JSON.parse throws
\* in newWs.onmessage and in the player's listener, and both catch
onmessageUnparsable(s) ==
  /\ failing = NULL
  /\ readyState[s] = "OPEN"
  /\ LET w1 == parseFailed(World)
         w2 == IF s = ws /\ playerMounted THEN parseFailed(w1) ELSE w1
     IN Commit(w2)
  /\ sent' = <<>>
  /\ ignored' = "unparsable"
  /\ UNCHANGED <<turn, codec, resampling, recVars>>
  /\ UNCHANGED sessionRefs

\* the output clock advances
tick ==
  /\ failing = NULL
  /\ audioContextRef = "running"
  /\ currentTime < MaxTime
  /\ currentTime' = currentTime + 1
  /\ sent' = <<>>
  /\ UNCHANGED <<turn, ignored, codec, resampling, recVars>>
  /\ UNCHANGED <<connVars, logVars, stageVars, volVars, audioContextRef,
                 isPlayingRef, lastScheduledEndTimeRef, streamEndedRef,
                 playbackCheckIntervalRef, animationFrameRef, scheduledSourcesRef,
                 playerMounted, nodes, nodeCount, lastNode, framePending,
                 pollTimers, baselineReset>>

\* the interval callback started by addAudioChunk
pollTick ==
  /\ failing = NULL
  /\ pollTimers > 0
  /\ Commit(checkPlaybackEnded(World))
  /\ sent' = <<>>
  /\ UNCHANGED <<turn, ignored, codec, resampling, recVars>>
  /\ UNCHANGED sessionRefs

\* the requestAnimationFrame callback (updateVolume)
frameTick(rms) ==
  /\ failing = NULL
  /\ framePending
  /\ Commit(updateVolume(World, rms))
  /\ sent' = <<>>
  /\ UNCHANGED <<turn, ignored, codec, resampling, recVars>>
  /\ UNCHANGED sessionRefs

\* source.onended of node n: the node played to its end or was stopped
sourceEnded(n) ==
  /\ failing = NULL
  /\ n \in nodes
  /\ n.stopped \/ currentTime >= n.start + n.dur
  /\ nodes' = nodes \ {n}
  /\ scheduledSourcesRef' = scheduledSourcesRef \ {n.id}
  /\ sent' = <<>>
  /\ UNCHANGED <<turn, ignored, codec, resampling, recVars>>
  /\ UNCHANGED <<connVars, logVars, stageVars, volVars, audioContextRef,
                 isPlayingRef, lastScheduledEndTimeRef, streamEndedRef,
                 playbackCheckIntervalRef, animationFrameRef, playerMounted,
                 currentTime, nodeCount, lastNode, framePending, pollTimers,
                 baselineReset>>

\* a call of the stopPlayback the hook returns
stop ==
  /\ failing = NULL
  /\ playerMounted
  /\ Commit(stopPlayback(World))
  /\ sent' = <<>>
  /\ UNCHANGED <<turn, ignored, codec, resampling, recVars>>
  /\ UNCHANGED sessionRefs

\* useAudioPlayer: cleanup on unmount
unmount ==
  /\ failing = NULL
  /\ playerMounted
  /\ LET w1 == stopPlayback(World)
     IN Commit([w1 EXCEPT !.audioContextRef = "null", !.playerMounted = FALSE])
  /\ sent' = <<>>
  /\ UNCHANGED <<turn, ignored, codec, resampling, recVars>>
  /\ UNCHANGED sessionRefs

\* ------------------------------------------------------ outbound operations
\* the argument of sendTextMessage: empty, white space, padded text
Contents == {"", " ", " a"}

\* a trim that removes nothing
trimNothing(c) == c

\* String.prototype.trim on Contents
trim(c) == CASE c = " " -> "" [] c = " a" -> "a" [] OTHER -> c

\* the client frames the thin senders build, by their type field
OutboundKinds == {"audio_message", "audio_stream_start", "audio_stream_chunk",
                  "audio_stream_end", "agent_mode_start", "agent_audio_chunk",
                  "agent_mode_stop", "switch_character", "clear_history"}

\* a sendMessage that tests only that a transport is stored
sendMessageOnAnyStored(f) == IF ws # NULL THEN <<f>> ELSE <<>>

\* useWebSocket.sendMessage: the frames it puts on the stored transport
sendMessage(f) == IF IsOpen(ws) THEN <<f>> ELSE <<>>

\* useWebSocket.sendTextMessage
sendTextMessage(c) ==
  /\ failing = NULL
  /\ IF trim(c) = ""
     THEN /\ sent' = <<>>
          /\ UNCHANGED messages
     ELSE /\ Len(messages) < MaxMessages
          /\ messages' = addMessage(messages, UserMessage(c))
          /\ sent' = sendMessage(<<"message", ws, c>>)
  /\ UNCHANGED <<turn, ignored, codec, resampling, recVars>>
  /\ UNCHANGED <<connVars, partialTranscription, isThinking, stageVars, volVars,
                 playerVars>>

\* useWebSocket.sendAudioMessage .. clearHistory: sendMessage of one frame
sendOther(k) ==
  /\ failing = NULL
  /\ sent' = sendMessage(<<k, ws>>)
  /\ UNCHANGED <<turn, ignored, codec, resampling, recVars>>
  /\ UNCHANGED <<connVars, restVars>>

\* ------------------------------------------------------------- recorder
FreeStreams == {s \in Streams : micStreams[s] = "none"}
NewStream == CHOOSE s \in FreeStreams : \A x \in FreeStreams : s <= x

\* AUDIO_CONFIG.sampleRate, in units of 16 kHz, and the rates a capture
\* context may run at
TargetRate == 1
Rates == {1, 2}
\* the lengths of the blocks a processor delivers
Lengths == {1, 2}

\* Math.round for a quotient of naturals
Round(num, den) == (2 * num + den) \div (2 * den)

\* utils/audio.resampleAudio: the length of its result
resampledLength(n, from, to) ==
  IF from = to THEN n ELSE Round(n * to, from)

\* the rates and input lengths resampleAudio is called with
MaxRate == 5
MaxLen == 6

\* a source index that is not capped at the end of the input
cappedNever(i, n) == i

\* resampleAudio: Math.min(srcIndexFloor + 1, audioData.length - 1)
capped(i, n) == Min(i, n - 1)

\* utils/audio.resampleAudio on an input of n samples: for each sample of
\* the result, the two source indices it is interpolated from (from === to
\* returns the input itself)
resampleAudio(n, from, to) ==
  IF from = to
  THEN [i \in 1..n |-> <<i - 1, i - 1>>]
  ELSE [i \in 1..Round(n * to, from) |->
          LET srcIndexFloor == ((i - 1) * from) \div to
          IN <<srcIndexFloor, capped(srcIndexFloor + 1, n)>>]

\* resampleAudio called on n samples at rate from, for rate to
resampleAudioCall(n, from, to) ==
  /\ resampling.step = "none"
  /\ resampling' = [step |-> "done", n |-> n, from |-> from, to |-> to,
                    out |-> resampleAudio(n, from, to)]
  /\ UNCHANGED <<connVars, logVars, stageVars, volVars, playerVars, recVars,
                 sent, turn, ignored, codec>>

\* the samples of the k-th delivered block after resampling, named by the
\* block and their place in it
Frame(k, n) == [i \in 1..n |-> <<k, i>>]

\* the loops that copy the blocks of a list into one array, in order
RECURSIVE Merge(_)
Merge(blocks) ==
  IF blocks = <<>> THEN <<>> ELSE Head(blocks) \o Merge(Tail(blocks))

\* everything outside the session that the recorder's operations leave alone
recRest == <<connVars, logVars, stageVars, playerVars, turn, ignored, codec, resampling>>
\* the same, and what was handed out so far
recIdle == <<recRest, voiceMode, isPressedRef, emitted, returned, overlapped>>

\* VoiceControls: setStreamingChunkHandler, which the hook gets as onChunk
setStreamingChunkHandler(b) ==
  /\ onChunk' = b
  /\ sent' = <<>>
  /\ onChunk # b
  /\ UNCHANGED <<isRecording, permissionDenied, streamRef, recAudioContextRef,
                 sourceRef, processorRef, chunksRef, accumulatedSamplesRef,
                 isRecordingRef, chunkIntervalRef, pendingStarts, micStreams,
                 released, graphs, wired, flushTimers, deviceRate, frameCount,
                 startedAt, fed, volVars, recIdle>>

\* startRecording, up to the await of getUserMedia, as any caller sees it
startRecordingCall ==
  /\ pendingStarts < MaxPending
  /\ pendingStarts' = pendingStarts + 1
  /\ overlapped' = (overlapped \/ pendingStarts > 0)
  /\ sent' = <<>>
  /\ UNCHANGED <<isRecording, onChunk, permissionDenied, streamRef,
                 recAudioContextRef, sourceRef, processorRef, chunksRef,
                 accumulatedSamplesRef, isRecordingRef, chunkIntervalRef,
                 micStreams, released, graphs, wired, flushTimers, deviceRate,
                 frameCount, startedAt, fed, volVars, recRest, emitted, returned>>

\* a startRecording call from outside VoiceControls
startRecording == startRecordingCall /\ UNCHANGED <<voiceMode, isPressedRef>>

\* startRecording, from the resolution of getUserMedia to its return; the
\* refs are overwritten whatever they hold
getUserMediaResolves ==
  /\ pendingStarts > 0
  /\ FreeStreams # {}
  /\ LET s == NewStream
     IN /\ micStreams' = [micStreams EXCEPT ![s] = "live"]
        /\ streamRef' = s
        /\ permissionDenied' = FALSE
        /\ graphs' = [graphs EXCEPT ![s] = "open"]
        /\ recAudioContextRef' = s
        /\ sourceRef' = s
        /\ processorRef' = s
        /\ wired' = wired \cup {s}
        /\ IF onChunk
           THEN /\ flushTimers' = flushTimers \cup {s}
                /\ chunkIntervalRef' = s
           ELSE UNCHANGED <<flushTimers, chunkIntervalRef>>
  /\ IF deviceRate = NULL THEN deviceRate' \in Rates ELSE UNCHANGED deviceRate
  /\ chunksRef' = <<>>
  /\ accumulatedSamplesRef' = <<>>
  /\ isRecordingRef' = TRUE
  /\ isRecording' = TRUE
  /\ startedAt' = frameCount
  /\ sent' = <<>>
  /\ fed' = <<>>
  /\ pendingStarts' = pendingStarts - 1
  /\ UNCHANGED <<onChunk, released, frameCount, volVars, recIdle>>

\* startRecording, when getUserMedia resolves and the construction of the
\* AudioContext then throws: the stream is stored, the catch block logs,
\* marks a NotAllowedError and rethrows; nothing stops the stream's tracks
audioContextThrows ==
  /\ pendingStarts > 0
  /\ FreeStreams # {}
  /\ LET s == NewStream
     IN /\ micStreams' = [micStreams EXCEPT ![s] = "live"]
        /\ streamRef' = s
  /\ permissionDenied' = FALSE
  /\ pendingStarts' = pendingStarts - 1
  /\ sent' = <<>>
  /\ UNCHANGED <<isRecording, onChunk, recAudioContextRef, sourceRef,
                 processorRef, chunksRef, accumulatedSamplesRef, isRecordingRef,
                 chunkIntervalRef, released, graphs, wired, flushTimers,
                 deviceRate, frameCount, startedAt, fed, volVars, recIdle>>

\* a catch block that asks for the microphone again
getUserMediaRejectsAndRetries(notAllowed) ==
  /\ pendingStarts > 0
  /\ sent' = <<>>
  /\ permissionDenied' = IF notAllowed THEN TRUE ELSE permissionDenied
  /\ UNCHANGED <<isRecording, onChunk, streamRef, recAudioContextRef, sourceRef,
                 processorRef, chunksRef, accumulatedSamplesRef, isRecordingRef,
                 chunkIntervalRef, pendingStarts, micStreams, released, graphs,
                 wired, flushTimers, deviceRate, frameCount, startedAt, fed,
                 volVars, recIdle>>

\* startRecording, when getUserMedia rejects: the catch block
catchBlock(notAllowed) ==
  /\ pendingStarts > 0
  /\ pendingStarts' = pendingStarts - 1
  /\ permissionDenied' = IF notAllowed THEN TRUE ELSE permissionDenied
  /\ sent' = <<>>
  /\ UNCHANGED <<isRecording, onChunk, streamRef, recAudioContextRef, sourceRef,
                 processorRef, chunksRef, accumulatedSamplesRef, isRecordingRef,
                 chunkIntervalRef, micStreams, released, graphs, wired,
                 flushTimers, deviceRate, frameCount, startedAt, fed, volVars,
                 recRest, emitted, returned, overlapped>>

\* the rejection of a startRecording call from outside VoiceControls
getUserMediaRejects(notAllowed) ==
  catchBlock(notAllowed) /\ UNCHANGED <<voiceMode, isPressedRef>>

\* the teardown stopRecording and cancelRecording share
teardown ==
  /\ isRecordingRef' = FALSE
  /\ flushTimers' = IF chunkIntervalRef # NULL
                    THEN flushTimers \ {chunkIntervalRef} ELSE flushTimers
  /\ chunkIntervalRef' = NULL
  /\ wired' = IF processorRef # NULL THEN wired \ {processorRef} ELSE wired
  /\ processorRef' = NULL
  /\ sourceRef' = NULL
  /\ graphs' = IF recAudioContextRef # NULL
               THEN [graphs EXCEPT ![recAudioContextRef] = "closed"] ELSE graphs
  /\ recAudioContextRef' = NULL
  /\ micStreams' = IF streamRef # NULL
                   THEN [micStreams EXCEPT ![streamRef] = "stopped"] ELSE micStreams
  /\ released' = IF streamRef # NULL
                 THEN [released EXCEPT ![streamRef] = @ + 1] ELSE released
  /\ streamRef' = NULL
  /\ chunksRef' = <<>>
  /\ accumulatedSamplesRef' = <<>>
  /\ volumeLevel' = 0
  /\ isRecording' = FALSE
  /\ overlapped' = (overlapped \/ pendingStarts > 0)
  /\ UNCHANGED <<permissionDenied, pendingStarts, volumeLevelRef,
                 deviceRate, frameCount, startedAt, fed>>

\* a merge that copies the newest block first
RECURSIVE MergeNewestFirst(_)
MergeNewestFirst(blocks) ==
  IF blocks = <<>> THEN <<>> ELSE MergeNewestFirst(Tail(blocks)) \o Head(blocks)
mergedNewestFirst(blocks) == MergeNewestFirst(blocks)

\* stopRecording: the buffer it encodes and returns
merged(blocks) == Merge(blocks)

\* stopRecording
stopRecording ==
  /\ teardown
  /\ returned' = merged(chunksRef)
  /\ sent' = <<>>
  /\ UNCHANGED <<recRest, onChunk, voiceMode, isPressedRef, emitted>>

\* cancelRecording
cancelRecording ==
  /\ teardown
  /\ sent' = <<>>
  /\ UNCHANGED <<recRest, onChunk, voiceMode, isPressedRef, emitted, returned>>

\* an onaudioprocess that never tests isRecordingRef
ignoresBlockNever(recording) == FALSE

\* processor.onaudioprocess: the test it returns early on
ignoresBlock(recording) == ~recording

\* processor.onaudioprocess of graph g, for a block of n samples
onaudioprocess(g, vol, n) ==
  /\ g \in wired
  /\ graphs[g] = "open"
  /\ frameCount < MaxBlocks
  /\ frameCount' = frameCount + 1
  /\ sent' = <<>>
  /\ fed' = Append(fed, n)
  /\ IF ignoresBlock(isRecordingRef)
     THEN UNCHANGED <<volumeLevel, accumulatedSamplesRef, chunksRef>>
     ELSE LET resampled ==
                Frame(frameCount + 1, resampledLength(n, deviceRate, TargetRate))
          IN /\ volumeLevel' = vol
             /\ accumulatedSamplesRef' = Append(accumulatedSamplesRef, resampled)
             /\ chunksRef' = Append(chunksRef, resampled)
  /\ UNCHANGED <<isRecording, onChunk, permissionDenied, streamRef,
                 recAudioContextRef, sourceRef, processorRef, isRecordingRef,
                 chunkIntervalRef, pendingStarts, micStreams, released, graphs,
                 wired, flushTimers, deviceRate, startedAt, volumeLevelRef,
                 recIdle>>

\* a flush that hands over the buffer and keeps it
afterFlushKept(acc) == acc

\* the interval callback: what it leaves in accumulatedSamplesRef
afterFlush(acc) == <<>>

\* the interval callback: the test it does nothing on
flushesNothing(acc) == Len(acc) = 0

\* the flush interval t fires
flushTick(t) ==
  /\ t \in flushTimers
  /\ sent' = <<>>
  /\ IF flushesNothing(accumulatedSamplesRef)
     THEN UNCHANGED <<emitted, accumulatedSamplesRef>>
     ELSE /\ emitted' = Append(emitted, Merge(accumulatedSamplesRef))
          /\ accumulatedSamplesRef' = afterFlush(accumulatedSamplesRef)
  /\ UNCHANGED <<isRecording, onChunk, permissionDenied, streamRef,
                 recAudioContextRef, sourceRef, processorRef, chunksRef,
                 isRecordingRef, chunkIntervalRef, pendingStarts, micStreams,
                 released, graphs, wired, flushTimers, deviceRate, frameCount,
                 startedAt, fed, volVars, recRest, voiceMode, isPressedRef,
                 returned, overlapped>>

\* -------------------------------------------------------- voice controls
\* VoiceControls.isDisabled (isSupported stays true)
isDisabled == connectionStatus # "connected" \/ isThinking

\* VoiceControls.handlePushToTalkStart and its long-press timeout, the
\* button still pressed when it fires
handlePushToTalkStart ==
  /\ failing = NULL
  /\ ~isDisabled
  /\ voiceMode # "voice_call"
  /\ isPressedRef' = TRUE
  /\ voiceMode' = "push-to-talk"
  /\ startRecordingCall

\* VoiceControls: the catch around await startRecording()
startRecordingFailed(notAllowed) ==
  /\ failing = NULL
  /\ catchBlock(notAllowed)
  /\ voiceMode' = "idle"
  /\ UNCHANGED isPressedRef

\* VoiceControls.handlePushToTalkEnd when it has a recording to send
handlePushToTalkEnd ==
  /\ failing = NULL
  /\ voiceMode = "push-to-talk"
  /\ isRecording
  /\ teardown
  /\ returned' = merged(chunksRef)
  /\ sent' = IF merged(chunksRef) # <<>>
             THEN sendMessage(<<"audio_message", ws, merged(chunksRef)>>)
             ELSE <<>>
  /\ voiceMode' = "idle"
  /\ isPressedRef' = FALSE
  /\ UNCHANGED <<connVars, logVars, stageVars, playerVars, turn, ignored, codec, resampling,
                 onChunk, emitted>>

\* VoiceControls.handlePushToTalkEnd when the mode is not push-to-talk or no
\* recording is active: the button is up, the long-press timer (already
\* fired) is cleared, and nothing else happens
handlePushToTalkEndNotRecording ==
  /\ failing = NULL
  /\ isPressedRef
  /\ ~(voiceMode = "push-to-talk" /\ isRecording)
  /\ isPressedRef' = FALSE
  /\ sent' = <<>>
  /\ UNCHANGED <<connVars, logVars, stageVars, volVars, playerVars, turn,
                 ignored, codec, resampling, isRecording, onChunk,
                 permissionDenied, streamRef, recAudioContextRef, sourceRef,
                 processorRef, chunksRef, accumulatedSamplesRef, isRecordingRef,
                 chunkIntervalRef, pendingStarts, micStreams, released, graphs,
                 wired, flushTimers, voiceMode, deviceRate, frameCount,
                 startedAt, fed, emitted, returned, overlapped>>

\* VoiceControls: the body of the effect on connectionStatus and isRecording
effectBody ==
  /\ teardown
  /\ onChunk' = FALSE
  /\ sent' = <<>>
  /\ voiceMode' = "idle"
  /\ UNCHANGED <<recRest, isPressedRef, emitted, returned>>

\* VoiceControls: the effect that cancels a recording when the session is
\* not connected
cancelOnDisconnect ==
  /\ failing = NULL
  /\ connectionStatus # "connected"
  /\ isRecording
  /\ effectBody

\* ------------------------------------------------------- PCM conversion
\* Float samples are the exact multiples of 1/Unit: each is a float32 value,
\* and every product and quotient below is exact in double arithmetic.
Unit == 65536
\* the samples converted: [-1, 1] and a little beyond, where the clamp acts
Overshoot == 2
Samples == (0 - Unit - Overshoot)..(Unit + Overshoot)

\* Math.max(-1, Math.min(1, x))
clamp(x) == IF x > Unit THEN Unit ELSE IF x < 0 - Unit THEN 0 - Unit ELSE x

\* the integer part of (a / Unit) * k for a >= 0, the fraction dropped;
\* computed by parts so that no intermediate value leaves 32 bits
scaled(a, k) == (a \div Unit) * k + ((a % Unit) * k) \div Unit

\* the integer part of (x / Unit) * k, truncated toward zero
truncate(x, k) == IF x >= 0 THEN scaled(x, k) ELSE 0 - scaled(0 - x, k)

\* a store into an Int16Array element: the integer modulo 2^16 as a signed value
toInt16(i) == ((i + 32768) % 65536) - 32768

\* float32ToInt16, one sample of x / Unit
float32ToInt16(x) ==
  LET s == clamp(x)
  IN toInt16(IF s < 0 THEN truncate(s, 32768) ELSE truncate(s, 32767))

\* int16ToFloat32, one sample: q / 0x8000 in units of 1 / Unit
int16ToFloat32(q) == (q * Unit) \div 32768

codecRest ==
  <<connVars, logVars, stageVars, volVars, playerVars, recVars, sent, turn,
    ignored, resampling>>

\* float32ToInt16 called on the sample x / Unit
encode(x) ==
  /\ codec.step = "none"
  /\ codec' = [step |-> "encoded", sample |-> x, pcm |-> float32ToInt16(x),
               decoded |-> 0]
  /\ UNCHANGED codecRest

\* int16ToFloat32 called on the result
decode ==
  /\ codec.step = "encoded"
  /\ codec' = [codec EXCEPT !.step = "decoded",
                            !.decoded = int16ToFloat32(codec.pcm)]
  /\ UNCHANGED codecRest

\* ------------------------------------------------------ store operations
\* the messages a caller of the store may hand to addMessage
Roles == {"user", "assistant"}
StoreContents == {"a", "b"}
StoreMessages == [role : Roles, content : StoreContents, isPartial : BOOLEAN]

\* what the store operations on the log leave alone
storeRest == <<connVars, stageVars, volVars, playerVars, recVars, turn,
              ignored, codec, resampling>>

\* chatStore.updateLastMessage: the new list
updateLastMessage(log, content, isPartial) ==
  IF Len(log) > 0
  THEN [log EXCEPT ![Len(log)] = [@ EXCEPT !.content = content,
                                           !.isPartial = isPartial]]
  ELSE log

\* chatStore.addMessage called with message msg
storeAddMessage(msg) ==
  /\ Len(messages) < MaxMessages
  /\ messages' = addMessage(messages, msg)
  /\ sent' = <<>>
  /\ UNCHANGED <<partialTranscription, isThinking, storeRest>>

\* chatStore.updateLastMessage called with content and isPartial
storeUpdateLastMessage(content, isPartial) ==
  /\ messages' = updateLastMessage(messages, content, isPartial)
  /\ sent' = <<>>
  /\ UNCHANGED <<partialTranscription, isThinking, storeRest>>

\* chatStore.clearMessages called on its own
storeClearMessages ==
  /\ messages' = <<>>
  /\ partialTranscription' = ""
  /\ sent' = <<>>
  /\ UNCHANGED <<isThinking, storeRest>>

\* chatStore.reset: every field of the store back to initialState (the token
\* is the one local storage held when the page loaded)
storeReset ==
  /\ volumeLevelRef' = 0
  /\ connectionStatus' = "disconnected"
  /\ errorMessage' = "null"
  /\ apiToken' \in Tokens
  /\ ws' = NULL
  /\ messages' = <<>>
  /\ partialTranscription' = ""
  /\ pipelineStage' = "idle"
  /\ isThinking' = FALSE
  /\ voiceMode' = "idle"
  /\ isRecording' = FALSE
  /\ isPlaying' = FALSE
  /\ volumeLevel' = 0
  /\ sent' = <<>>
  /\ UNCHANGED <<readyState, opened, failing, pingIntervalRef, intervals,
                 reconnectTimeoutRef, reconnectTimers, userDisconnected,
                 playerVars, turn, ignored, codec, resampling, onChunk, permissionDenied, streamRef,
                 recAudioContextRef, sourceRef, processorRef, chunksRef,
                 accumulatedSamplesRef, isRecordingRef, chunkIntervalRef,
                 pendingStarts, micStreams, released, graphs, wired,
                 flushTimers, isPressedRef, deviceRate, frameCount, startedAt,
                 fed, emitted, returned, overlapped>>

\* ----------------------------------------------------------- specification
ConnMsgs == {Msg("connected"), Msg("disconnected"), Msg("error")}

\* the connection life cycle: any number of transports, handshake messages
Next ==
  \/ \E t \in Tokens : setApiToken(t)
  \/ connect
  \/ disconnect
  \/ \E s \in Sockets : onopen(s)
  \/ \E s \in Sockets : onerror(s)
  \/ \E s \in Sockets : onclose(s)
  \/ \E i \in Sockets : pingTick(i)
  \/ \E s \in Sockets, m \in ConnMsgs : onmessage(s, m, 0)

Spec == Init /\ [][Next]_vars

PlayMsgs ==
  {Msg("llm_start"), Msg("tts_start"), Msg("audio_end"), Msg("turn_end")}
    \cup {ChunkMsg(ok, d) : ok \in BOOLEAN, d \in Durations}

\* one session and its playback
NextPlay ==
  \/ connect /\ FreeSockets = Sockets /\ apiToken # ""
  \/ disconnect /\ ws # NULL
  \/ onopen(1)
  \/ onclose(1)
  \/ \E m \in PlayMsgs : onmessage(1, m, 1)
  \/ tick
  \/ pollTick
  \/ \E n \in nodes : sourceEnded(n)
  \/ unmount

SpecPlay == Init /\ [][NextPlay]_vars

\* the same, with the poll interval firing and the output clock advancing
\* as long as they can
FairPlay == SpecPlay /\ WF_vars(tick) /\ WF_vars(pollTick)

\* RMS values the analyser can yield, in units of 0.5
Rms == {0, 1, 2}

SchedMsgs == {Msg("llm_start"), Msg("audio_end")}
ChunkMsgs == {ChunkMsg(ok, d) : ok \in BOOLEAN, d \in Durations}

\* the playback scheduler with its sampling callback and its stop operation
NextSched ==
  \/ connect /\ FreeSockets = Sockets /\ apiToken # ""
  \/ onopen(1)
  \/ \E m \in SchedMsgs : onmessage(1, m, 0)
  \/ \E m \in ChunkMsgs, r \in Rms : onmessage(1, m, r)
  \/ tick
  \/ pollTick
  \/ \E r \in Rms : frameTick(r)
  \/ \E n \in nodes : sourceEnded(n)
  \/ stop
  \/ unmount

SpecSched == Init /\ [][NextSched]_vars

TurnMsgs ==
  {Msg("thinking"), Msg("llm_start"), Msg("turn_end"), Msg("history_cleared")}
    \cup {TextMsg("response", c) : c \in Texts}
    \cup {TextMsg("asr_end", c) : c \in Texts}

\* one session and the frames of its turns
NextTurn ==
  \/ connect /\ FreeSockets = Sockets /\ apiToken # ""
  \/ onopen(1)
  \/ \E m \in TurnMsgs : onmessage(1, m, 0)

SpecTurn == Init /\ [][NextTurn]_vars

\* the recorder under any sequence of calls
NextRec ==
  \/ \E b \in BOOLEAN : setStreamingChunkHandler(b)
  \/ startRecording
  \/ getUserMediaResolves
  \/ \E na \in BOOLEAN : getUserMediaRejects(na)
  \/ stopRecording
  \/ cancelRecording
  \/ \E g \in Streams, v \in Volumes, n \in Lengths : onaudioprocess(g, v, n)
  \/ \E i \in Streams : flushTick(i)

SpecRec == Init /\ [][NextRec]_vars

\* The recorder when every startRecording call completes before the next
\* recorder call is made.
NextCap ==
  \/ \E b \in BOOLEAN : setStreamingChunkHandler(b)
  \/ startRecording /\ pendingStarts = 0
  \/ getUserMediaResolves
  \/ stopRecording
  \/ cancelRecording
  \/ \E g \in Streams, n \in Lengths : onaudioprocess(g, FullVolume, n)
  \/ \E i \in Streams : flushTick(i)

SpecCap == Init /\ [][NextCap]_vars

\* The recorder's calls and the answers to its permission requests.
NextDeny ==
  \/ \E b \in BOOLEAN : setStreamingChunkHandler(b)
  \/ startRecording
  \/ getUserMediaResolves
  \/ \E na \in BOOLEAN : getUserMediaRejects(na)
  \/ stopRecording
  \/ cancelRecording

SpecDeny == Init /\ [][NextDeny]_vars

\* A caller that starts the recorder only while it is idle and no start is
\* waiting, and may stop or cancel at any time.
NextPend ==
  \/ \E b \in BOOLEAN : setStreamingChunkHandler(b)
  \/ startRecording /\ pendingStarts = 0 /\ ~isRecording
  \/ getUserMediaResolves
  \/ audioContextThrows
  \/ \E na \in BOOLEAN : getUserMediaRejects(na)
  \/ stopRecording
  \/ cancelRecording
  \/ \E g \in Streams, n \in Lengths : onaudioprocess(g, FullVolume, n)

SpecPend == Init /\ [][NextPend]_vars

\* One session and the push-to-talk control.
NextVoice ==
  \/ connect /\ FreeSockets = Sockets /\ apiToken # ""
  \/ disconnect /\ ws # NULL
  \/ onopen(1)
  \/ onclose(1)
  \/ onmessage(1, Msg("connected"), 0) /\ connectionStatus = "connecting"
  \/ onmessage(1, Msg("disconnected"), 0)
  \/ handlePushToTalkStart
  \/ getUserMediaResolves
  \/ \E na \in BOOLEAN : startRecordingFailed(na)
  \/ handlePushToTalkEnd
  \/ handlePushToTalkEndNotRecording
  \/ \E g \in Streams, n \in Lengths : onaudioprocess(g, FullVolume, n)
  \/ cancelOnDisconnect

SpecVoice == Init /\ [][NextVoice]_vars

\* One session and a push-to-talk button that is pressed only while it is up
\* and the voice mode is idle.
NextTalk ==
  \/ connect /\ FreeSockets = Sockets /\ apiToken # ""
  \/ disconnect /\ ws # NULL
  \/ onopen(1)
  \/ onclose(1)
  \/ onmessage(1, Msg("connected"), 0) /\ connectionStatus = "connecting"
  \/ onmessage(1, Msg("disconnected"), 0)
  \/ handlePushToTalkStart /\ ~isPressedRef /\ voiceMode = "idle"
  \/ getUserMediaResolves
  \/ \E na \in BOOLEAN : startRecordingFailed(na)
  \/ handlePushToTalkEnd
  \/ handlePushToTalkEndNotRecording
  \/ \E g \in Streams, n \in Lengths : onaudioprocess(g, FullVolume, n)
  \/ cancelOnDisconnect

SpecTalk == Init /\ [][NextTalk]_vars

\* The same; the browser answers every permission request, and React runs
\* the effect whenever its condition holds.
FairTalk ==
  /\ SpecTalk
  /\ WF_vars(getUserMediaResolves \/ \E na \in BOOLEAN : startRecordingFailed(na))
  /\ WF_vars(cancelOnDisconnect)

\* frames of kinds the dispatcher has no case for: one the protocol declares,
\* one it does not
UnknownMsgs == {Msg("voice_call_listening"), Msg("bogus")}
IgnoreMsgs ==
  {Msg("connected"), Msg("thinking"), Msg("asr_start"), Msg("error"),
   TextMsg("response", "a"), TextMsg("transcription", "a")}

\* one session receiving frames it handles, frames of unknown kinds and
\* frames that are not JSON
NextIgnore ==
  \/ connect /\ FreeSockets = Sockets /\ apiToken # ""
  \/ onopen(1)
  \/ \E m \in IgnoreMsgs : onmessage(1, m, 0)
  \/ \E m \in UnknownMsgs : onmessage(1, m, 0)
  \/ onmessageUnparsable(1)

SpecIgnore == Init /\ [][NextIgnore]_vars

\* one sample through float32ToInt16 and int16ToFloat32
NextCodec ==
  \/ codec.step = "none" /\ \E x \in Samples : encode(x)
  \/ decode

SpecCodec == Init /\ [][NextCodec]_vars

\* resampleAudio on every input length and pair of rates
NextResample ==
  \E n \in 1..MaxLen, from \in 1..MaxRate, to \in 1..MaxRate :
    resampleAudioCall(n, from, to)

SpecResample == Init /\ [][NextResample]_vars

\* The store's operations on the message log, called in any order.
NextStore ==
  \/ \E msg \in StoreMessages : storeAddMessage(msg)
  \/ \E c \in StoreContents, p \in BOOLEAN : storeUpdateLastMessage(c, p)
  \/ storeClearMessages
  \/ storeReset

SpecStore == Init /\ [][NextStore]_vars

\* The session with its outbound operations.
NextSend ==
  \/ connect /\ apiToken # ""
  \/ disconnect /\ ws # NULL
  \/ \E s \in Sockets : onopen(s) \/ onclose(s)
  \/ \E s \in Sockets : onmessage(s, Msg("connected"), 0)
  \/ \E i \in Sockets : pingTick(i)
  \/ \E c \in Contents : sendTextMessage(c)
  \/ \E k \in OutboundKinds : sendOther(k)

SpecSend == Init /\ [][NextSend]_vars

TypeOK ==
  /\ connectionStatus \in {"disconnected", "connecting", "connected", "error"}
  /\ ws \in {NULL} \cup Sockets
  /\ readyState \in [Sockets -> ReadyStates]
  /\ pingIntervalRef \in {NULL} \cup Sockets
  /\ intervals \subseteq Sockets
  /\ pipelineStage \in Stages
  /\ volumeLevelRef \in Volumes
  /\ pollTimers \in 0..1
\* ------------------------------------------------------------------ claims
\* C1: in every reachable state at most one transport created by connect()
\* is live (CONNECTING or OPEN).
C1_AtMostOneLiveTransport == Cardinality(LiveSockets) <= 1

\* C2: a transport close schedules exactly one reconnect attempt when the
\* status just before the close was Connected, and none otherwise.
C2_ReconnectOncePerDrop ==
  [][\A s \in Sockets :
       onclose(s) =>
         IF connectionStatus = "connected"
         THEN Cardinality(reconnectTimers') = Cardinality(reconnectTimers) + 1
         ELSE reconnectTimers' = reconnectTimers]_vars

\* C7: from a disconnect() until the user's next connect() no heartbeat
\* interval and no reconnect timer is pending and no handshake or ping is sent.
C7_QuietAfterDisconnect ==
  userDisconnected =>
    /\ intervals = {} /\ pingIntervalRef = NULL
    /\ reconnectTimers = {} /\ reconnectTimeoutRef = NULL
    /\ sent = <<>>

AllowedStatusChanges ==
  {<<"disconnected", "connecting">>, <<"connecting", "connected">>,
   <<"connected", "disconnected">>, <<"connecting", "error">>,
   <<"connected", "error">>, <<"error", "disconnected">>}

\* C10: every change of the connection status is one of Disconnected->
\* Connecting, Connecting->Connected, Connected->Disconnected, Connecting->
\* Error, Connected->Error, Error->Disconnected.
C10_StatusMachine ==
  [][connectionStatus' # connectionStatus =>
       <<connectionStatus, connectionStatus'>> \in AllowedStatusChanges]_vars
\* C3: the scheduler leaves Playing, other than by stop, only when the
\* stream-ended flag is set and the clock is at or past the last scheduled
\* end; however far the clock is past it, the poll does nothing while the flag
\* is false.
C3_DrainNeedsStreamEnd ==
  [][(isPlayingRef /\ ~isPlayingRef' /\ playerMounted') =>
       (streamEndedRef /\ currentTime >= lastScheduledEndTimeRef)]_vars

\* the clock is past the last scheduled end, the poll is running, the flag is
\* false and the scheduler is still Playing
C3_Witness ==
  /\ isPlayingRef /\ pollTimers = 1 /\ ~streamEndedRef
  /\ currentTime > lastScheduledEndTimeRef

\* C4: a chunk scheduled after another one of the same continuous stream
\* starts at max(now, end of the previous one): at the previous end when it
\* arrives no later than that, at its arrival time otherwise.
C4_GaplessOrNow ==
  [][(nodeCount' = nodeCount + 1 /\ ~lastNode'.first) =>
       /\ lastNode'.at = currentTime
       /\ lastNode'.start = Max(currentTime, lastNode.start + lastNode.dur)]_vars

\* a second chunk of a stream that arrived before the first one ended and was
\* placed at its end
C4_Witness ==
  /\ nodeCount = 2 /\ ~lastNode.first
  /\ lastNode.start > lastNode.at

C6_DisconnectStopsPlayback ==
  [][(disconnect /\ isPlayingRef) =>
       /\ ~isPlayingRef' /\ ~isPlaying'
       /\ \A n \in nodes' : n.stopped
       /\ volumeLevelRef' = 0]_vars
\* the contents of the assistant messages of a log, in order
AssistantContents(log) ==
  LET a == SelectSeq(log, LAMBDA x : x.role = "assistant")
  IN [i \in 1..Len(a) |-> a[i].content]

C8_EveryStreamReleasedOnce ==
  /\ [](\A s \in Streams : released[s] <= 1)
  /\ [][((stopRecording \/ cancelRecording) /\ ~overlapped') =>
          /\ \A s \in Streams : micStreams'[s] # "live"
          /\ \A g \in Streams : graphs'[g] # "open"
          /\ flushTimers' = {}]_vars
\* C11 as claimed: every connect() made with an empty token sets the error
\* message, opens no transport and leaves the status and the stored handle
\* unchanged.
C11_EmptyTokenAlwaysReported ==
  [][(connect /\ apiToken = "") =>
       /\ errorMessage' = "missing token"
       /\ readyState' = readyState
       /\ connectionStatus' = connectionStatus
       /\ ws' = ws]_vars

\* C11 as amended: a connect() made with an empty token while the stored
\* transport is not OPEN sets the error message, opens no transport and
\* leaves the status and the stored handle unchanged.
C11_EmptyTokenReported ==
  [][(connect /\ apiToken = "" /\ ~IsOpen(ws)) =>
       /\ errorMessage' = "missing token"
       /\ readyState' = readyState
       /\ connectionStatus' = connectionStatus
       /\ ws' = ws]_vars

\* the message is shown, nothing was opened and the status never left
\* disconnected
C11_Witness ==
  /\ errorMessage = "missing token" /\ apiToken = ""
  /\ connectionStatus = "disconnected" /\ ws = NULL /\ LiveSockets = {}

\* C12: a connect() made while the stored transport is OPEN creates no
\* transport and leaves the status, the error message, the stored handle, the
\* heartbeat interval and the reconnect timer unchanged.
C12_ConnectWhileOpenIsNoOp ==
  [][(connect /\ IsOpen(ws)) =>
       UNCHANGED <<connectionStatus, errorMessage, ws, readyState,
                   pingIntervalRef, intervals, reconnectTimeoutRef,
                   reconnectTimers>>]_vars

\* a Connected session: the stored transport is OPEN and its heartbeat runs
C12_Witness ==
  /\ IsOpen(ws) /\ connectionStatus = "connected"
  /\ pingIntervalRef = ws /\ ws \in intervals /\ apiToken # ""
\* the scheduler's own state: what only the scheduler and its timers write
schedulerState ==
  <<isPlayingRef, lastScheduledEndTimeRef, scheduledSourcesRef, nodes,
    nodeCount, lastNode, playbackCheckIntervalRef, pollTimers,
    animationFrameRef, framePending, audioContextRef, currentTime,
    baselineReset>>

\* C13: an audio_end frame leaves the pipeline stage and the playing flag as
\* they were; it sets the scheduler's stream-ended flag and changes nothing
\* else of the scheduler or of the store.
C13_AudioEndOnlySetsFlag ==
  [][(onmessage(1, Msg("audio_end"), 1) /\ playerMounted) =>
       /\ pipelineStage' = pipelineStage /\ isPlaying' = isPlaying
       /\ streamEndedRef'
       /\ UNCHANGED <<schedulerState, logVars, volVars, connectionStatus,
                      errorMessage>>]_vars

\* audio_end has arrived during playback: the flag is set, stage and playing
\* flag still say playing
C13_Witness ==
  /\ streamEndedRef /\ isPlayingRef /\ isPlaying /\ pipelineStage = "playing"

\* C14: an llm_start frame zeroes the last scheduled end and clears the
\* stream-ended flag, and the chunk scheduled first after it starts at its
\* own arrival time; a tts_start frame received while a context exists
\* leaves the last scheduled end as it is, and a later chunk of the turn that
\* arrives before the audio scheduled so far has ended starts at that end.
C14_TurnBoundaryResetsBaseline ==
  [][/\ (onmessage(1, Msg("llm_start"), 1) /\ playerMounted) =>
          (lastScheduledEndTimeRef' = 0 /\ ~streamEndedRef')
     /\ (nodeCount' = nodeCount + 1 /\ lastNode'.first) =>
          lastNode'.start = lastNode'.at
     /\ (onmessage(1, Msg("tts_start"), 1) /\ audioContextRef = "running") =>
          (lastScheduledEndTimeRef' = lastScheduledEndTimeRef
           /\ baselineReset' = baselineReset)
     /\ (nodeCount' = nodeCount + 1 /\ ~lastNode'.first
         /\ currentTime <= lastNode.start + lastNode.dur) =>
          lastNode'.start = lastNode.start + lastNode.dur]_vars

\* the first chunk of a second turn started at its arrival time, before the
\* end of the audio still playing from the turn before
C14_Witness ==
  /\ nodeCount = 2 /\ lastNode.first /\ lastNode.start = lastNode.at
  /\ \E n \in nodes : n.id = 1 /\ n.start + n.dur > lastNode.start

\* a source node that is audible or still to become audible
InFlight(n, now) == ~n.stopped /\ now < n.start + n.dur

\* the scheduler as stop() is said to leave it, in-flight segments aside
Stopped ==
  /\ ~isPlayingRef /\ ~isPlaying
  /\ scheduledSourcesRef = {}
  /\ lastScheduledEndTimeRef = 0
  /\ ~streamEndedRef
  /\ ~playbackCheckIntervalRef /\ pollTimers = 0
  /\ ~animationFrameRef /\ ~framePending
  /\ volumeLevelRef = 0

\* C15: stop() leaves the scheduler Idle with no segment in
\* flight, the list empty, the last scheduled end reset, the stream-ended flag
\* cleared, the poll cancelled and the loudness cell 0; a stop() in that state
\* changes none of these.
C15_StopLeavesNothingInFlight ==
  [][stop => /\ Stopped'
             /\ \A n \in nodes' : ~InFlight(n, currentTime')
             /\ (Stopped => UNCHANGED <<schedulerState, streamEndedRef,
                                        isPlaying, volVars>>)]_vars

\* what scheduling one more valid chunk of length d yields from the state w
NextSchedule(w, d) ==
  LET w1 == addAudioChunk(w, TRUE, d, 1)
  IN <<w1.lastNode.start, w1.lastScheduledEndTimeRef, w1.isPlayingRef>>

\* C16: a chunk that does not decode leaves the scheduler's Playing/Idle
\* state, its last scheduled end, its scheduled segments, its poll and its
\* stream-ended flag as they were, and in every state a valid chunk that
\* follows an undecodable one is scheduled exactly as it would be without it.
C16_BadChunkDropped ==
  /\ [][\A d \in Durations :
          (onmessage(1, ChunkMsg(FALSE, d), 1) /\ playerMounted) =>
            UNCHANGED <<isPlayingRef, lastScheduledEndTimeRef,
                        scheduledSourcesRef, nodes, nodeCount, lastNode,
                        streamEndedRef, playbackCheckIntervalRef, pollTimers,
                        baselineReset>>]_vars
  /\ [](\A d \in Durations :
          NextSchedule(playerHandleMessage(World, ChunkMsg(FALSE, d), 1), d)
            = NextSchedule(World, d))

\* an undecodable chunk arrived after a stream had drained: the store says
\* playing, the scheduler is Idle and keeps its last scheduled end
C16_Witness ==
  /\ isPlaying /\ ~isPlayingRef /\ playerMounted
  /\ lastScheduledEndTimeRef > 0 /\ nodeCount > 0

\* C17: the loudness cell is within [0, 1], and whenever the scheduler is
\* Idle it is 0 and no sampling callback is pending.
C17_LoudnessZeroWhenIdle ==
  /\ volumeLevelRef \in 0..FullVolume
  /\ ~isPlayingRef => (volumeLevelRef = 0 /\ ~framePending)

\* Idle again after a stream was played and sampled: the cell is back at 0
\* and no sampling callback is pending
C17_Witness ==
  /\ ~isPlayingRef /\ nodeCount > 0 /\ playerMounted /\ streamEndedRef
  /\ volumeLevelRef = 0 /\ ~framePending

\* C18: sendTextMessage while the session is not Connected (no stored
\* transport, or the stored transport not OPEN) is a no-op: nothing is
\* transmitted and the message log is left as it was.
C18_SendTextOfflineIsNoOp ==
  [][\A c \in Contents :
       (sendTextMessage(c) /\ ~IsOpen(ws)) =>
         sent' = <<>> /\ messages' = messages]_vars

\* C19: an outbound operation other than send-text, and the heartbeat ping,
\* run while the stored transport is absent or not OPEN, transmits nothing on
\* any transport and leaves the error message and the connection status as
\* they were.
C19_OfflineSendsTransmitNothing ==
  [][((\/ \E k \in OutboundKinds : sendOther(k)
       \/ \E i \in Sockets : pingTick(i)) /\ ~IsOpen(ws)) =>
       /\ sent' = <<>>
       /\ UNCHANGED <<errorMessage, connectionStatus>>]_vars

\* a transport is OPEN and another one, still CONNECTING, is the stored one
C19_Witness ==
  /\ ws # NULL
  /\ readyState[ws] = "CONNECTING"
  /\ \E s \in Sockets : readyState[s] = "OPEN" /\ s \in intervals
  /\ sent = <<>>
  /\ errorMessage = "null"

\* C20: sendTextMessage(content) while Connected: content that is not blank
\* puts exactly one user message with that content at the end of the log and
\* transmits exactly one text frame with that content; empty or white-space
\* content appends nothing and transmits nothing.
C20_SendTextWhileConnected ==
  [][\A c \in Contents :
       (sendTextMessage(c) /\ IsOpen(ws) /\ connectionStatus = "connected") =>
         IF c \in {"", " "}
         THEN messages' = messages /\ sent' = <<>>
         ELSE /\ messages' = Append(messages, UserMessage(c))
              /\ sent' = << <<"message", ws, c>> >>]_vars

\* a padded text was sent as the second message of the log
C20_Witness ==
  /\ IsOpen(ws)
  /\ connectionStatus = "connected"
  /\ Len(messages) = 2
  /\ messages[2] = UserMessage(" a")
  /\ sent = << <<"message", ws, " a">> >>

\* C21: a startRecording made while a recording is active is a no-op: it
\* acquires no second microphone stream, capture graph or flush interval and
\* keeps the capture buffers.
C21_StartWhileActiveIsNoOp ==
  [][(getUserMediaResolves /\ isRecording) =>
       UNCHANGED <<micStreams, graphs, wired, flushTimers, streamRef,
                   chunksRef, accumulatedSamplesRef>>]_vars

\* nothing of the capture is open
NothingOpen ==
  /\ \A s \in Streams : micStreams[s] # "live"
  /\ \A g \in Streams : graphs[g] # "open"
  /\ flushTimers = {}

\* C22: when the permission request is rejected, startRecording sets the
\* permission-denied condition, recording stays false and the volume 0, the
\* call opens no stream, graph or interval, and nothing but a startRecording
\* call asks for the microphone again.
C22_PermissionRejected ==
  /\ [][getUserMediaRejects(TRUE) =>
          /\ permissionDenied'
          /\ pendingStarts' = pendingStarts - 1
          /\ UNCHANGED <<isRecording, volumeLevel, micStreams, graphs, wired,
                         flushTimers, streamRef, isRecordingRef>>
          /\ ~isRecording => (~isRecording' /\ volumeLevel' = 0)
          /\ NothingOpen => NothingOpen']_vars
  /\ [][pendingStarts' > pendingStarts => startRecording]_vars

\* a request was rejected after a complete recording
C22_Witness ==
  /\ permissionDenied
  /\ pendingStarts = 0
  /\ ~isRecording
  /\ volumeLevel = 0
  /\ released[1] = 1
  /\ NothingOpen

\* the sum of the resampled lengths of the blocks of a list
RECURSIVE SumResampled(_)
SumResampled(lens) ==
  IF lens = <<>> THEN 0
  ELSE resampledLength(Head(lens), deviceRate, TargetRate) + SumResampled(Tail(lens))

\* buf holds the samples of the blocks lo+1 .. hi, block after block and each
\* block from its first sample to its last
InDeliveryOrder(buf, lo, hi) ==
  /\ {buf[j][1] : j \in DOMAIN buf} = (lo + 1)..hi
  /\ buf # <<>> => buf[1] = <<lo + 1, 1>>
  /\ \A j \in 1..(Len(buf) - 1) :
       \/ buf[j + 1] = <<buf[j][1], buf[j][2] + 1>>
       \/ buf[j + 1] = <<buf[j][1] + 1, 1>>

\* C23: in batch mode the buffer stopRecording returns holds the resampled
\* samples of the blocks delivered since startRecording, in delivery order,
\* and as many samples as the blocks' resampled lengths add up to.
C23_BatchBufferIsConcatenation ==
  [][(stopRecording /\ isRecordingRef /\ chunkIntervalRef = NULL) =>
       /\ InDeliveryOrder(returned', startedAt, frameCount)
       /\ Len(returned') = SumResampled(fed)]_vars

\* a batch recording of two blocks, the first of them halved by resampling,
\* was returned
C23_Witness ==
  /\ ~isRecording
  /\ deviceRate # TargetRate
  /\ fed = <<2, 1>>
  /\ Len(returned) = 2
  /\ returned[1][1] # returned[2][1]
  /\ emitted = <<>>

\* the samples of a list of chunks
Flat(chunks) == Merge(chunks)

\* no sample occurs twice in a buffer
NoRepeat(buf) == \A i, j \in DOMAIN buf : buf[i] = buf[j] => i = j

\* C24: a tick of the flush interval with a non-empty accumulation buffer
\* hands onChunk one chunk holding everything accumulated since the last
\* flush, in capture order, and empties the buffer; a tick with an empty
\* buffer hands over nothing; no sample is handed over twice.
C24_FlushDeliversOnce ==
  /\ [][\A t \in Streams : flushTick(t) =>
          IF Len(accumulatedSamplesRef) > 0
          THEN /\ Len(emitted') = Len(emitted) + 1
               /\ SubSeq(emitted', 1, Len(emitted)) = emitted
               /\ emitted'[Len(emitted')] = Merge(accumulatedSamplesRef)
               /\ accumulatedSamplesRef' = <<>>
          ELSE UNCHANGED <<emitted, accumulatedSamplesRef>>]_vars
  /\ [](/\ NoRepeat(Flat(emitted) \o Merge(accumulatedSamplesRef))
        /\ \A c \in DOMAIN emitted : emitted[c] # <<>>
        /\ \A j \in 1..(Len(Flat(emitted)) - 1) :
             Flat(emitted)[j][1] <= Flat(emitted)[j + 1][1])

\* two chunks were handed over, one block each, and the buffer is empty
C24_Witness ==
  /\ Len(emitted) = 2
  /\ emitted[1][1][1] = 1
  /\ emitted[2][1][1] = 2
  /\ accumulatedSamplesRef = <<>>
  /\ isRecordingRef
  /\ chunkIntervalRef # NULL

\* C25: stopRecording of a recording started with a chunk callback returns
\* an empty buffer, in batch mode it returns the merged capture; in both
\* modes the volume is 0 and recording false afterwards.
C25_StreamingStopReturnsEmpty ==
  [][stopRecording =>
       /\ returned' = IF chunkIntervalRef # NULL THEN <<>> ELSE Merge(chunksRef)
       /\ volumeLevel' = 0
       /\ ~isRecording']_vars

\* C26: after stopRecording or cancelRecording the capture buffers are
\* empty, a block delivered while no recording is active is dropped, and
\* the buffer a later stopRecording returns and every chunk handed over
\* later hold only blocks delivered after the startRecording they belong to.
C26_NoLeakAcrossRecordings ==
  /\ [][(stopRecording \/ cancelRecording) =>
          chunksRef' = <<>> /\ accumulatedSamplesRef' = <<>>]_vars
  /\ [][(frameCount' # frameCount /\ ~isRecordingRef) =>
          UNCHANGED <<chunksRef, accumulatedSamplesRef, emitted, returned,
                      volumeLevel>>]_vars
  /\ [][stopRecording =>
          \A j \in DOMAIN returned' : returned'[j][1] > startedAt]_vars
  /\ [][emitted' # emitted =>
          \A j \in DOMAIN emitted'[Len(emitted')] :
            emitted'[Len(emitted')][j][1] > startedAt]_vars
  /\ [](~isRecordingRef => chunksRef = <<>> /\ accumulatedSamplesRef = <<>>)

\* the second recording returned its own block and not the block of the
\* first, which was cancelled
C26_Witness ==
  /\ ~isRecording
  /\ frameCount = 2
  /\ startedAt = 1
  /\ returned # <<>>
  /\ \A j \in DOMAIN returned : returned[j][1] = 2
  /\ released = [s \in Streams |-> 1]

\* C27: when the connection status is not Connected while a recording is
\* active, the recording is cancelled: every microphone stream is released,
\* recording becomes false, the voice mode returns to idle, the capture
\* buffers are dropped, and an utterance sent later holds no audio of that
\* recording.
C27_DisconnectCancelsRecording ==
  /\ [][cancelOnDisconnect =>
          /\ \A s \in Streams : micStreams'[s] # "live"
          /\ ~isRecording'
          /\ ~isRecordingRef'
          /\ voiceMode' = "idle"
          /\ chunksRef' = <<>> /\ accumulatedSamplesRef' = <<>>
          /\ sent' = <<>>]_vars
  /\ [][\A i \in DOMAIN sent' :
          sent'[i][1] = "audio_message" =>
            \A j \in DOMAIN sent'[i][3] : sent'[i][3][j][1] > startedAt]_vars

\* C28: a message that is in the log and not marked partial is never
\* modified: every step appends one message, empties the log, or leaves each
\* finalized message as it was.
C28_FinalizedNeverModified ==
  [][\/ /\ Len(messages') = Len(messages) + 1
        /\ SubSeq(messages', 1, Len(messages)) = messages
     \/ messages' = <<>>
     \/ /\ Len(messages') = Len(messages)
        /\ \A i \in DOMAIN messages :
             ~messages[i].isPartial => messages'[i] = messages[i]]_vars

\* C29: a frame that is not JSON, or whose kind the dispatcher has no case
\* for, changes nothing: connection status, log, partial transcript, pipeline
\* stage, thinking and playing flags and error message stay as they were,
\* and the transport and the stored socket stay as they were.
C29_UnknownFramesIgnored ==
  [][(\E s \in Sockets :
        \/ onmessageUnparsable(s)
        \/ \E m \in UnknownMsgs : onmessage(s, m, 0))
     => /\ UNCHANGED <<connectionStatus, messages, partialTranscription,
                       pipelineStage, isThinking, isPlaying, errorMessage>>
        /\ readyState' = readyState
        /\ ws' = ws]_vars

C29_Witness ==
  /\ ignored = "unknown"
  /\ connectionStatus = "connected"
  /\ readyState[ws] = "OPEN"
  /\ isThinking
  /\ pipelineStage = "asr"
  /\ Len(messages) > 0
  /\ partialTranscription # ""

\* the absolute difference of two numbers
AbsDiff(a, b) == IF a >= b THEN a - b ELSE b - a
\* 1/32768 in units of 1/Unit
QuantizationStep == Unit \div 32768

\* C30: a sample in [-1, 1] converted to a 16-bit integer and back differs
\* from the original by at most 1/32768.
C30_RoundTripWithinOneStep ==
  (codec.step = "decoded" /\ codec.sample >= 0 - Unit /\ codec.sample <= Unit)
    => AbsDiff(codec.decoded, codec.sample) <= QuantizationStep

\* C31: for a non-empty input and unequal rates, resampleAudio returns
\* round(n / (from / to)) samples, and both source indices of every sample lie
\* in 0..n-1, the second being the first or its successor.
C31_ResampleLengthAndIndices ==
  (resampling.step = "done" /\ resampling.from # resampling.to)
    => /\ 2 * resampling.from * Len(resampling.out)
            <= 2 * resampling.n * resampling.to + resampling.from
       /\ 2 * resampling.from * (Len(resampling.out) + 1)
            > 2 * resampling.n * resampling.to + resampling.from
       /\ \A i \in DOMAIN resampling.out :
            /\ resampling.out[i][1] \in 0..(resampling.n - 1)
            /\ resampling.out[i][2] \in 0..(resampling.n - 1)
            /\ resampling.out[i][1] * resampling.to
                 <= (i - 1) * resampling.from
            /\ (resampling.out[i][1] + 1) * resampling.to
                 > (i - 1) * resampling.from
            /\ resampling.out[i][2] \in
                 {resampling.out[i][1], resampling.out[i][1] + 1}

C31_Witness ==
  /\ resampling.step = "done"
  /\ resampling.from < resampling.to
  /\ Len(resampling.out) > resampling.n
  /\ \E i \in DOMAIN resampling.out :
       resampling.out[i][1] = resampling.n - 1 /\ resampling.out[i][2] = resampling.n - 1

\* C32: whenever the connection status is connected, the store holds a
\* transport and that transport is OPEN.
C32_ConnectedHasOpenTransport ==
  connectionStatus = "connected" => (ws # NULL /\ readyState[ws] = "OPEN")

\* C33: no two scheduled segments that have not been stopped have
\* overlapping playback intervals on the output clock.
C33_NoOverlappingSegments ==
  \A a \in nodes : \A b \in nodes :
    (a.id # b.id /\ ~a.stopped /\ ~b.stopped)
      => (a.start + a.dur <= b.start \/ b.start + b.dur <= a.start)

\* C34: within one turn the scheduler leaves Playing at most once, so it
\* never enters Playing again in the same turn: a chunk that starts playback
\* while the stream-ended flag of an earlier segment is still set is the
\* first chunk scheduled since the turn boundary.
C34_OneDrainPerTurn ==
  [][(~isPlayingRef /\ isPlayingRef' /\ streamEndedRef) => baselineReset]_vars

\* C35: once the scheduler is Playing and no further chunk can arrive (no
\* transport is left), it eventually is Idle with the playing flag false,
\* whether or not the stream-end signal was received (the audio scheduled
\* ends within the time the clock covers).
C35_PlaybackEventuallyEnds ==
  (isPlayingRef /\ LiveSockets = {} /\ lastScheduledEndTimeRef <= MaxTime)
    ~> (~isPlayingRef /\ ~isPlaying)

\* C36: the shared playing flag is set, or the stage is 'playing', only
\* while the playback scheduler is Playing.
C36_PlayingFlagOnlyWhilePlaying ==
  (isPlaying \/ pipelineStage = "playing") => isPlayingRef

\* C37: the drain poll is active exactly when the scheduler is Playing: one
\* interval while Playing, none while Idle, started by the step that enters
\* Playing and cancelled by every step that leaves it.
C37_PollExactlyWhilePlaying ==
  /\ [](pollTimers = IF isPlayingRef THEN 1 ELSE 0)
  /\ [](playbackCheckIntervalRef = isPlayingRef)
  /\ [][(~isPlayingRef /\ isPlayingRef') => (pollTimers = 0 /\ pollTimers' = 1)]_vars
  /\ [][(isPlayingRef /\ ~isPlayingRef') => (pollTimers = 1 /\ pollTimers' = 0)]_vars

\* Idle after a drain (the stream-ended flag is still set): the poll is gone
C37_Witness ==
  /\ ~isPlayingRef /\ pollTimers = 0 /\ ~playbackCheckIntervalRef
  /\ nodeCount > 0 /\ streamEndedRef /\ playerMounted

\* C38: at most one heartbeat interval is active at any time, and none is
\* active while no transport is open (a transport that has failed is open
\* until its close event has been delivered).
C38_OneHeartbeatWhileOpen ==
  /\ Cardinality(intervals) <= 1
  /\ (failing = NULL /\ \A s \in Sockets : readyState[s] # "OPEN")
       => intervals = {}

\* C39: no microphone stream stays open while the recorder is not recording:
\* every live stream belongs to an active recording, and a stopRecording or
\* cancelRecording call leaves no startRecording call waiting whose
\* permission answer would still acquire a stream and activate the recording.
C39_NoStreamWithoutRecording ==
  /\ [](\A s \in Streams : micStreams[s] = "live" => isRecording)
  /\ [][(stopRecording \/ cancelRecording) => pendingStarts' = 0]_vars

\* C40: after the push-to-talk button is released, recording always ends:
\* from every state where the button is up, eventually recording is false,
\* no microphone stream is live and the voice mode is idle.
C40_ReleaseEndsRecording ==
  ~isPressedRef
    ~> (~isRecording /\ voiceMode = "idle"
        /\ \A s \in Streams : micStreams[s] # "live")

====
